---- MODULE Spec2Model ----
(***************************************************************************)
(* Plagiarism detection pipeline: PlagiarismService.check_document with    *)
(* the candidate selector, the two scorers (TFIDFChecker, BERTChecker),    *)
(* ReportService and the Database tables it writes.                        *)
(*                                                                         *)
(* Texts are sequences of one-character strings, so that lower(), the      *)
(* regular expressions, split(), prefix matching and slicing are computed  *)
(* as the code computes them.  Similarities are fixed-point numbers in     *)
(* hundredths (0.37 is 37); an overall score counts sixtieths of a         *)
(* thousandth, so that the mean of up to six weighted scores is exact.     *)
(***************************************************************************)
EXTENDS Integers, Sequences, FiniteSets, TLC

(***************************************************************************)
(* Characters and strings                                                  *)
(***************************************************************************)
UpperCase == <<"A","B","C","D","E","F","G","H","I","J","K","L","M",
               "N","O","P","Q","R","S","T","U","V","W","X","Y","Z">>
LowerCase == <<"a","b","c","d","e","f","g","h","i","j","k","l","m",
               "n","o","p","q","r","s","t","u","v","w","x","y","z">>
Digits == <<"0","1","2","3","4","5","6","7","8","9">>

Range(s) == {s[i] : i \in DOMAIN s}

Letters == Range(LowerCase)
WhiteSpace == {" "}
\* \w of the token pattern, after lowercasing
WordChars == Letters \cup Range(Digits) \cup {"_"}
\* the unicode61 tokenizer of FTS5 keeps letters and digits
AlnumChars == Letters \cup Range(Digits)

\* code-point order of the characters the model uses
CodeOrder == <<" ", ".">> \o Digits \o UpperCase \o <<"_">> \o LowerCase

Ord(c) == CHOOSE i \in DOMAIN CodeOrder : CodeOrder[i] = c

\* str.lower() on one character
ToLower(c) ==
    IF \E i \in DOMAIN UpperCase : UpperCase[i] = c
    THEN LowerCase[CHOOSE i \in DOMAIN UpperCase : UpperCase[i] = c]
    ELSE c

\* str.lower()
Lower(s) == [i \in DOMAIN s |-> ToLower(s[i])]

\* re.sub(r"[^a-z\s]", "", text)
StripSpecial(s) == SelectSeq(s, LAMBDA c : c \in Letters \cup WhiteSpace)

\* the maximal runs of characters of `keep` in s, left to right
Runs(s, keep) ==
    LET starts == {i \in DOMAIN s : s[i] \in keep /\ (i = 1 \/ s[i - 1] \notin keep)}
        ends == {i \in DOMAIN s : s[i] \in keep /\ (i = Len(s) \/ s[i + 1] \notin keep)}
        start(k) == CHOOSE i \in starts : Cardinality({j \in starts : j < i}) = k - 1
        end(k) == CHOOSE i \in ends : Cardinality({j \in ends : j < i}) = k - 1
    IN [k \in 1..Cardinality(starts) |-> SubSeq(s, start(k), end(k))]

\* str.split() with no argument: the non-empty runs of non-whitespace
Split(s) == Runs(s, Range(s) \ WhiteSpace)

\* " ".join(tokens)
RECURSIVE Join(_)
Join(tokens) ==
    IF tokens = <<>> THEN <<>>
    ELSE IF Len(tokens) = 1 THEN tokens[1]
    ELSE tokens[1] \o <<" ">> \o Join(Tail(tokens))

EndsWith(w, suf) ==
    /\ Len(w) >= Len(suf)
    /\ SubSeq(w, Len(w) - Len(suf) + 1, Len(w)) = suf

DropLast(w, n) == SubSeq(w, 1, Len(w) - n)

IsPrefix(p, w) == Len(p) <= Len(w) /\ SubSeq(w, 1, Len(p)) = p

\* lexicographic order by code point, the order of Python's sorted()
RECURSIVE LexLess(_, _)
LexLess(a, b) ==
    IF a = <<>> THEN b # <<>>
    ELSE IF b = <<>> THEN FALSE
    ELSE IF a[1] = b[1] THEN LexLess(Tail(a), Tail(b))
    ELSE Ord(a[1]) < Ord(b[1])

RECURSIVE SortedSeq(_)
SortedSeq(S) ==
    IF S = {} THEN <<>>
    ELSE LET m == CHOOSE x \in S : \A y \in S \ {x} : LexLess(x, y)
         IN <<m>> \o SortedSeq(S \ {m})

\* floor of the square root
RECURSIVE IsqrtFrom(_, _)
IsqrtFrom(n, k) == IF (k + 1) * (k + 1) > n THEN k ELSE IsqrtFrom(n, k + 1)

Isqrt(n) == IsqrtFrom(n, 0)

RECURSIVE SumSeq(_)
SumSeq(s) == IF s = <<>> THEN 0 ELSE s[1] + SumSeq(Tail(s))

(***************************************************************************)
(* preprocessing/text_cleaner.py                                           *)
(***************************************************************************)

\* the members of NLTK's English stop-word list that the model's texts use
stop_words == { <<"t","h","e">>, <<"a">>, <<"i","s">>, <<"o","f">>, <<"a","n","d">> }

\* PorterStemmer.stem: words of one or two letters are returned unchanged;
\* step 1a strips the plural suffix, step 1b "ing" after a stem with a vowel,
\* step 4 "al" and "ence" after a stem of measure above 1, and step 5a a
\* final "e" after such a stem.  The other rules of the algorithm leave
\* every word of the model's texts unchanged.
stem(w) ==
    LET vowel(x, i) == x[i] \in {"a", "e", "i", "o", "u"}
        \* the number of vowel-consonant sequences of x
        measure(x) == Cardinality({i \in 1..(Len(x) - 1) : vowel(x, i) /\ ~vowel(x, i + 1)})
        step1a(x) ==
            IF EndsWith(x, <<"s","s","e","s">>) THEN DropLast(x, 2)
            ELSE IF EndsWith(x, <<"i","e","s">>)
                 THEN IF Len(x) = 4 THEN DropLast(x, 1) ELSE DropLast(x, 2)
            ELSE IF EndsWith(x, <<"s","s">>) THEN x
            ELSE IF EndsWith(x, <<"s">>) THEN DropLast(x, 1)
            ELSE x
        step1b(x) ==
            IF EndsWith(x, <<"i","n","g">>) /\ \E i \in 1..(Len(x) - 3) : vowel(x, i)
            THEN DropLast(x, 3) ELSE x
        step4(x) ==
            IF EndsWith(x, <<"e","n","c","e">>) /\ measure(DropLast(x, 4)) > 1
            THEN DropLast(x, 4)
            ELSE IF EndsWith(x, <<"a","l">>) /\ measure(DropLast(x, 2)) > 1
            THEN DropLast(x, 2)
            ELSE x
        step5a(x) ==
            IF EndsWith(x, <<"e">>) /\ measure(DropLast(x, 1)) > 1
            THEN DropLast(x, 1) ELSE x
    IN IF Len(w) <= 2 THEN w ELSE step5a(step4(step1b(step1a(w))))

clean_text(text) ==
    LET lowered == Lower(text)
        stripped == StripSpecial(lowered)
        tokens == Split(stripped)
        kept == SelectSeq(tokens, LAMBDA w : w \notin stop_words)
    IN Join([i \in DOMAIN kept |-> stem(kept[i])])

(***************************************************************************)
(* models/tfidf_checker.py: TfidfVectorizer().fit_transform([doc1, doc2])  *)
(* followed by cosine_similarity of the two rows.                          *)
(***************************************************************************)
\* the analyzer: lowercase, token_pattern (?u)\b\w\w+\b
TfidfTokens(doc) == SelectSeq(Runs(Lower(doc), WordChars), LAMBDA t : Len(t) >= 2)

CountOf(tokens, t) == Cardinality({i \in DOMAIN tokens : tokens[i] = t})

\* CountVectorizer.fit_transform: the sorted vocabulary of the two documents
\* and their term-count rows over it
CountMatrix(doc1, doc2) ==
    LET t1 == TfidfTokens(doc1)
        t2 == TfidfTokens(doc2)
        vocab == SortedSeq(Range(t1) \cup Range(t2))
    IN [vocab |-> vocab,
        row1 |-> [j \in DOMAIN vocab |-> CountOf(t1, vocab[j])],
        row2 |-> [j \in DOMAIN vocab |-> CountOf(t2, vocab[j])]]

\* idf(t) = ln((1 + n) / (1 + df(t))) + 1 with n = 2 documents: 1 for a term of
\* both documents and 1 + ln 1.5 = 1.405465 for a term of one.  The cosine
\* only uses idf squared (1 and 1.975332), kept here in fortieths.
IdfSqShared == 40
IdfSqSingle == 79

\* TfidfTransformer.fit: the idf vector of a count matrix
FitIdf(X) ==
    [j \in DOMAIN X.vocab |->
        IF X.row1[j] > 0 /\ X.row2[j] > 0 THEN IdfSqShared ELSE IdfSqSingle]

\* floor(100 * d / sqrt(n1 * n2)) for d >= 0
Cos100(d, n1, n2) ==
    IF d = 0 \/ n1 = 0 \/ n2 = 0 THEN 0
    ELSE Isqrt((10000 * d * d) \div (n1 * n2))

\* TfidfTransformer.transform (tf * idf, then l2 normalisation) and
\* cosine_similarity of row 0 and row 1, in hundredths
TfidfCosine(X, idfsq) ==
    LET J == DOMAIN X.vocab
        dot == SumSeq([j \in J |-> X.row1[j] * X.row2[j] * idfsq[j]])
        n1 == SumSeq([j \in J |-> X.row1[j] * X.row1[j] * idfsq[j]])
        n2 == SumSeq([j \in J |-> X.row2[j] * X.row2[j] * idfsq[j]])
    IN Cos100(dot, n1, n2)

(***************************************************************************)
(* models/bert_checker.py: the sentence-embedding model.  The pretrained   *)
(* network is a fixed function from texts to vectors; Embed stands for it. *)
(***************************************************************************)
EmbedBase == <<1, 0>>

\* the contribution of one lower-cased word to the sentence embedding
WordVec(w) ==
    CASE w = <<"c","a","t","s">> -> <<2, 1>>
      [] w = <<"c","a","t">> -> <<2, 1>>
      [] w = <<"d","o","g","s">> -> <<1, 2>>
      [] w = <<"a","i">> -> <<-3, 1>>
      [] w = <<"4","2">> -> <<-2, -1>>
      [] OTHER -> <<0, 0>>

\* model.encode(doc)
Embed(doc) ==
    LET ws == Runs(Lower(doc), AlnumChars)
    IN <<EmbedBase[1] + SumSeq([i \in DOMAIN ws |-> WordVec(ws[i])[1]]),
         EmbedBase[2] + SumSeq([i \in DOMAIN ws |-> WordVec(ws[i])[2]])>>

\* util.cos_sim of two embeddings, then float(): the cosine itself, in
\* hundredths, negative when the dot product is negative
cos_sim(e1, e2) ==
    LET dot == e1[1] * e2[1] + e1[2] * e2[2]
        n1 == e1[1] * e1[1] + e1[2] * e1[2]
        n2 == e2[1] * e2[1] + e2[2] * e2[2]
    IN IF dot >= 0 THEN Cos100(dot, n1, n2) ELSE 0 - Cos100(0 - dot, n1, n2)

(***************************************************************************)
(* Inputs: uploaded files and corpus documents                             *)
(***************************************************************************)
SP == <<" ">>
T_CatsAi == <<"C","a","t","s">> \o SP \o <<"a","i">>
T_The42 == <<"t","h","e">> \o SP \o <<"4","2">>
T_Dogs == <<"d","o","g","s">>
T_catsai == <<"c","a","t","s">> \o SP \o <<"a","i">>
T_42 == <<"4","2">>
T_Empty == <<>>
\* "Machine learning is a subset of artificial intelligence."
T_ML ==
    <<"M","a","c","h","i","n","e">> \o SP
    \o <<"l","e","a","r","n","i","n","g">> \o SP
    \o <<"i","s">> \o SP
    \o <<"a">> \o SP
    \o <<"s","u","b","s","e","t">> \o SP
    \o <<"o","f">> \o SP
    \o <<"a","r","t","i","f","i","c","i","a","l">> \o SP
    \o <<"i","n","t","e","l","l","i","g","e","n","c","e">> \o <<".">>

\* uploaded files: extension, whether the reader succeeds, and the text read
F_CatsAi == [name |-> "catsai.txt", ext |-> ".txt", readable |-> TRUE, text |-> T_CatsAi]
F_The42 == [name |-> "the42.txt", ext |-> ".txt", readable |-> TRUE, text |-> T_The42]
F_Dogs == [name |-> "dogs.docx", ext |-> ".docx", readable |-> TRUE, text |-> T_Dogs]
F_Exe == [name |-> "tool.exe", ext |-> ".exe", readable |-> TRUE, text |-> T_Dogs]
F_BadPdf == [name |-> "broken.pdf", ext |-> ".pdf", readable |-> FALSE, text |-> T_Empty]
\* "ca pa ca xa xb ... xw dogs": 27 tokens, 26 of them distinct, "dogs" last
F_Many == [name |-> "many.txt", ext |-> ".txt", readable |-> TRUE,
           text |-> <<"c","a"," ","p","a"," ","c","a"," ","x","a"," ","x","b"," ","x",
               "c"," ","x","d"," ","x","e"," ","x","f"," ","x","g"," ","x","h",
               " ","x","i"," ","x","j"," ","x","k"," ","x","l"," ","x","m"," ",
               "x","n"," ","x","o"," ","x","p"," ","x","q"," ","x","r"," ","x",
               "s"," ","x","t"," ","x","u"," ","x","v"," ","x","w"," ","d","o",
               "g","s">>]
F_ML == [name |-> "ml.txt", ext |-> ".txt", readable |-> TRUE, text |-> T_ML]

Files == {F_CatsAi, F_The42, F_Dogs, F_Exe, F_BadPdf}

SupportedExt == {".txt", ".docx", ".pdf"}

\* a default branch that reads any other extension as text
read_file_as_text(f) ==
    IF ~f.readable THEN [raised |-> TRUE, error |-> "ReadError", text |-> <<>>]
    ELSE [raised |-> FALSE, error |-> "None", text |-> f.text]

\* read_file: ValueError for an unsupported extension, else what the reader
\* of the extension does: it raises or returns the text
read_file(f) ==
    IF f.ext \notin SupportedExt
    THEN [raised |-> TRUE, error |-> "ValueError", text |-> <<>>]
    ELSE IF ~f.readable
    THEN [raised |-> TRUE, error |-> "ReadError", text |-> <<>>]
    ELSE [raised |-> FALSE, error |-> "None", text |-> f.text]

\* rows of the documents table, without the id (the row's position)
Doc_A == [title |-> <<"A">>, content |-> T_catsai,
          source |-> <<"P","A","N">>, doc_type |-> <<"r","e","f">>]
Doc_B == [title |-> <<"B">>, content |-> T_42,
          source |-> <<"P","A","N">>, doc_type |-> <<"r","e","f">>]
Doc_C == [title |-> <<"C">>, content |-> T_Dogs,
          source |-> <<"P","A","N">>, doc_type |-> <<"r","e","f">>]

DocChoices == <<Doc_A, Doc_B, Doc_C>>

\* the program's limits
MAX_CANDIDATES == 100
QUERY_TOKEN_LIMIT == 25
CONTENT_PREVIEW == 500

\* the document titled "Doc A" whose content is the sentence, and a document
\* that holds the same sentence after CONTENT_PREVIEW characters of layout
Doc_ML == [title |-> <<"D","o","c"," ","A">>, content |-> T_ML,
           source |-> <<"P","A","N">>, doc_type |-> <<"r","e","f">>]
Doc_Long == [title |-> <<"L">>, content |-> [i \in 1..CONTENT_PREVIEW |-> " "] \o T_ML,
             source |-> <<"P","A","N">>, doc_type |-> <<"r","e","f">>]

\* bounds of the model
SmallCorpus == 1
MaxCorpus == 101
MaxClock == 2
TicksPerSecond == 2

Threads == {1, 2}

WithIds(docs) ==
    [i \in DOMAIN docs |-> [id |-> i, title |-> docs[i].title, content |-> docs[i].content,
                            source |-> docs[i].source, doc_type |-> docs[i].doc_type]]

\* the corpus of n rows whose i-th row is choice ((i + k) mod 3)
CycleCorpus(n, k) ==
    WithIds([i \in 1..n |-> DocChoices[((i + k) % Len(DocChoices)) + 1]])

RECURSIVE SeqsUpTo(_, _)
SeqsUpTo(S, n) ==
    IF n = 0 THEN {<<>>}
    ELSE LET shorter == SeqsUpTo(S, n - 1)
         IN shorter \cup {Append(q, x) : q \in {r \in shorter : Len(r) = n - 1}, x \in S}

SmallCorpora == {WithIds(d) : d \in SeqsUpTo(Range(DocChoices), SmallCorpus)}
SentenceCorpora == {WithIds(<<Doc_ML>>), WithIds(<<Doc_Long>>), WithIds(<<Doc_C, Doc_ML>>)}
LargeCorpora == {CycleCorpus(n, 0) : n \in (MAX_CANDIDATES - 1)..MaxCorpus}

(***************************************************************************)
(* State                                                                   *)
(***************************************************************************)
VARIABLES
    documents,           \* the documents table (the reference corpus)
    plagiarism_reports,  \* the plagiarism_reports table, in insertion order
    user_submissions,    \* the user_submissions table, in insertion order
    vectorizer,          \* TFIDFChecker.vectorizer, one object for all calls
    bert_model,          \* BERTChecker.model: "loaded" or "none"
    contract,            \* BlockchainService: contract and key configured
    client,              \* IPFSService.client: connected
    clock,               \* the last time read from the system clock, in ticks
    run,                 \* per thread: the locals of its check_document call
    call                 \* a direct call of a ReportService method and its result

vars == <<documents, plagiarism_reports, user_submissions, vectorizer, bert_model,
          contract, client, clock, run, call>>

None == "None"

\* values of locals that are not assigned yet, and of absent report keys
NoFile == [name |-> "", ext |-> "", readable |-> FALSE, text |-> <<>>]
NoMatrix == [vocab |-> <<>>, row1 |-> <<>>, row2 |-> <<>>]
NoReport == [report_id |-> <<>>]
Absent == [status |-> "absent"]

\* the reference_files argument: None (use the database) or a list of files
UseDatabase == [given |-> FALSE, files |-> <<>>]
GivenFiles(files) == [given |-> TRUE, files |-> files]

\* the locals of a call that has not started
FreshRun ==
    [pc |-> "idle", uploaded_file |-> NoFile, reference_arg |-> UseDatabase,
     user_id |-> None, store_on_blockchain |-> FALSE,
     uploaded_text |-> <<>>, cleaned_text |-> <<>>, document_hash |-> <<>>,
     conn |-> "none", reference_files |-> <<>>, idx |-> 0, X |-> NoMatrix,
     similarity_results |-> <<>>, report |-> NoReport, error |-> None,
     \* history of the call, for stating properties
     path |-> "none", fts_query |-> <<>>, fts_queries |-> 0, fts_raised |-> FALSE, used_sample |-> FALSE, scorer_calls |-> 0,
     tfidf_score |-> 0, bert_score |-> 0, tfidf_raised |-> FALSE, skipped |-> {},
     anchor_result |-> "not_called", archive_result |-> "not_called",
     stored |-> FALSE, tracked |-> FALSE,
     reports_before |-> 0, submissions_before |-> 0]

Goto(t, label) == run' = [run EXCEPT ![t].pc = label]

\* hashlib.sha256(text).hexdigest(): a digest that identifies the text
Sha256(text) == <<"sha256", text>>

(***************************************************************************)
(* services/plagiarism_service.py: check_document, step 1                  *)
(***************************************************************************)
Request(f, refs, u, sob) ==
    [uploaded_file |-> f, reference_files |-> refs, user_id |-> u,
     store_on_blockchain |-> sob]

Finished == {"returned", "raised"}

\* a request arrives: a server thread calls check_document(uploaded_file,
\* reference_files, user_id, store_on_blockchain) on the shared service.
\* Threads take requests in order; `overlap` says whether a request may
\* arrive while another one is being served.
Call(t, requests, overlap) ==
    /\ run[t].pc = "idle"
    /\ \A u \in Threads : u < t => run[u].pc # "idle"
    /\ overlap \/ \A u \in Threads \ {t} : run[u].pc \in Finished \cup {"idle"}
    /\ \E r \in requests :
         run' = [run EXCEPT ![t] =
                    [FreshRun EXCEPT !.pc = "read_file",
                                     !.uploaded_file = r.uploaded_file,
                                     !.reference_arg = r.reference_files,
                                     !.user_id = r.user_id,
                                     !.store_on_blockchain = r.store_on_blockchain,
                                     !.reports_before = Len(plagiarism_reports),
                                     !.submissions_before = Len(user_submissions)]]
    /\ UNCHANGED <<documents, plagiarism_reports, user_submissions, vectorizer,
                   bert_model, contract, client, clock, call>>

\* uploaded_text = read_file(uploaded_file); cleaned_text; document_hash
ReadFile(t) ==
    /\ run[t].pc = "read_file"
    /\ LET parsed == read_file(run[t].uploaded_file) IN
         IF parsed.raised
         THEN run' = [run EXCEPT ![t].pc = "raised", ![t].error = parsed.error]
         ELSE run' = [run EXCEPT ![t].pc = IF run[t].reference_arg.given
                                           THEN "read_references" ELSE "get_connection",
                                 ![t].uploaded_text = parsed.text,
                                 ![t].cleaned_text = clean_text(parsed.text),
                                 ![t].document_hash = Sha256(parsed.text)]
    /\ UNCHANGED <<documents, plagiarism_reports, user_submissions, vectorizer,
                   bert_model, contract, client, clock, call>>

(***************************************************************************)
(* check_document, step 2: candidate selection on a fresh connection       *)
(***************************************************************************)
Min(a, b) == IF a <= b THEN a ELSE b

FirstN(q, n) == SubSeq(q, 1, Min(n, Len(q)))

\* the (id, title, content) projection of the SELECTs
Project(rows) == [i \in DOMAIN rows |-> <<rows[i].id, rows[i].title, rows[i].content>>]

\* remove duplicates, keeping the first occurrence of each token
RECURSIVE DedupFrom(_, _)
DedupFrom(tokens, seen) ==
    IF tokens = <<>> THEN <<>>
    ELSE IF tokens[1] \in seen THEN DedupFrom(Tail(tokens), seen)
    ELSE <<tokens[1]>> \o DedupFrom(Tail(tokens), seen \cup {tokens[1]})

deduped_tokens(cleaned_text) == DedupFrom(Split(cleaned_text), {})

\* every deduplicated token as a term of the query
all_query_tokens(cleaned_text) == deduped_tokens(cleaned_text)

\* the prefix terms of fts_query, "t1* OR t2* OR ..."
query_tokens(cleaned_text) == FirstN(deduped_tokens(cleaned_text), QUERY_TOKEN_LIMIT)

\* the tokens FTS5 (unicode61) indexes for a row: all four columns
IndexedTokens(d) ==
    Runs(Lower(d.title), AlnumChars) \o Runs(Lower(d.content), AlnumChars)
        \o Runs(Lower(d.source), AlnumChars) \o Runs(Lower(d.doc_type), AlnumChars)

\* occurrences in the row of tokens that some query term is a prefix of
MatchCount(d, q) ==
    LET toks == IndexedTokens(d)
    IN Cardinality({i \in DOMAIN toks : \E j \in DOMAIN q : IsPrefix(q[j], toks[i])})

\* ORDER BY rank: FTS5 orders by bm25; the model ranks a row higher the more
\* matching tokens it holds, and equal rows by rowid
RankBefore(q, a, b) ==
    \/ MatchCount(a, q) > MatchCount(b, q)
    \/ MatchCount(a, q) = MatchCount(b, q) /\ a.id < b.id

\* SELECT ... FROM documents_fts JOIN documents WHERE documents_fts MATCH ?
\* ORDER BY rank LIMIT 100
NoLimitFtsQuery(docs, q) ==
    Project(SortSeq(SelectSeq(docs, LAMBDA d : MatchCount(d, q) > 0),
                    LAMBDA a, b : RankBefore(q, a, b)))

FtsQuery(docs, q) ==
    Project(FirstN(SortSeq(SelectSeq(docs, LAMBDA d : MatchCount(d, q) > 0),
                           LAMBDA a, b : RankBefore(q, a, b)),
                   MAX_CANDIDATES))

\* SELECT id, title, content FROM documents LIMIT 100
NoLimitSampleQuery(docs) == Project(docs)

SampleQuery(docs) == Project(FirstN(docs, MAX_CANDIDATES))

\* conn = self.db.get_connection(); cursor = conn.cursor()
GetConnection(t) ==
    /\ run[t].pc = "get_connection"
    /\ run' = [run EXCEPT ![t].pc = "stage1", ![t].conn = "open"]
    /\ UNCHANGED <<documents, plagiarism_reports, user_submissions, vectorizer,
                   bert_model, contract, client, clock, call>>

\* "if not reference_files:"
NeverEmpty(rows) == FALSE

IsEmpty(rows) == rows = <<>>

\* whether a SELECT raises: with `faults` the database may fail any statement
Raises(faults) == IF faults THEN BOOLEAN ELSE {FALSE}

\* the try block up to the FTS query: with no usable token the query is
\* skipped; otherwise it returns its rows or raises
Stage1Query(t, faults) ==
    /\ run[t].pc = "stage1"
    /\ LET q == query_tokens(run[t].cleaned_text) IN
         IF deduped_tokens(run[t].cleaned_text) = <<>>
         THEN run' = [run EXCEPT ![t].pc = "try_fallback", ![t].reference_files = <<>>,
                                 ![t].path = "no_tokens"]
         ELSE \E raises \in Raises(faults) :
                IF raises
                THEN run' = [run EXCEPT ![t].pc = "except_fallback",
                                        ![t].fts_query = q,
                                        ![t].fts_queries = run[t].fts_queries + 1,
                                        ![t].fts_raised = TRUE,
                                        ![t].path = "index_raised"]
                ELSE LET rows == FtsQuery(documents, q) IN
                     run' = [run EXCEPT ![t].pc = IF IsEmpty(rows) THEN "try_fallback"
                                                  ELSE "close",
                                        ![t].fts_query = q,
                                        ![t].fts_queries = run[t].fts_queries + 1,
                                        ![t].reference_files = rows,
                                        ![t].path = IF rows = <<>> THEN "no_rows"
                                                    ELSE "index"]
    /\ UNCHANGED <<documents, plagiarism_reports, user_submissions, vectorizer,
                   bert_model, contract, client, clock, call>>

\* "if not reference_files:" inside the try block: the sample, or the SELECT
\* raises and control passes to the except block
TryFallback(t, faults) ==
    /\ run[t].pc = "try_fallback"
    /\ \E raises \in Raises(faults) :
         IF raises
         THEN run' = [run EXCEPT ![t].pc = "except_fallback"]
         ELSE run' = [run EXCEPT ![t].pc = "close", ![t].used_sample = TRUE,
                                 ![t].reference_files = SampleQuery(documents)]
    /\ UNCHANGED <<documents, plagiarism_reports, user_submissions, vectorizer,
                   bert_model, contract, client, clock, call>>

\* the except block: the sample again; an exception of this SELECT leaves
\* check_document, and conn.close() is not reached
ExceptFallback(t) ==
    /\ run[t].pc = "except_fallback"
    /\ \E raises \in BOOLEAN :
         IF raises
         THEN run' = [run EXCEPT ![t].pc = "raised", ![t].error = "sqlite3.Error"]
         ELSE run' = [run EXCEPT ![t].pc = "close", ![t].used_sample = TRUE,
                                 ![t].reference_files = SampleQuery(documents)]
    /\ UNCHANGED <<documents, plagiarism_reports, user_submissions, vectorizer,
                   bert_model, contract, client, clock, call>>

\* conn.close()
CloseConn(t) ==
    /\ run[t].pc = "close"
    /\ run' = [run EXCEPT ![t].pc = "score", ![t].conn = "closed", ![t].idx = 1]
    /\ UNCHANGED <<documents, plagiarism_reports, user_submissions, vectorizer,
                   bert_model, contract, client, clock, call>>

\* f"ref_{i}"
RefTitle(i) == <<"r","e","f","_">> \o <<Digits[i + 1]>>

\* the else branch: reference_files given by the caller are read and cleaned;
\* a reference file that cannot be parsed raises out of check_document
ReadReferences(t) ==
    /\ run[t].pc = "read_references"
    /\ LET refs == run[t].reference_arg.files IN
         IF \E i \in DOMAIN refs : read_file(refs[i]).raised
         THEN run' = [run EXCEPT ![t].pc = "raised", ![t].error = "ReferenceError"]
         ELSE run' = [run EXCEPT ![t].pc = "score", ![t].idx = 1,
                        ![t].path = "given",
                        ![t].reference_files =
                            [i \in DOMAIN refs |->
                                <<i - 1, RefTitle(i - 1),
                                  clean_text(read_file(refs[i]).text)>>]]
    /\ UNCHANGED <<documents, plagiarism_reports, user_submissions, vectorizer,
                   bert_model, contract, client, clock, call>>

(***************************************************************************)
(* check_document, step 3: _run_detection_methods, one candidate at a time *)
(***************************************************************************)
SIGNIFICANT == 10   \* "> 0.1", in hundredths

Candidate(t) == run[t].reference_files[run[t].idx]

\* content[:500] + "..."
Preview(content) == FirstN(content, CONTENT_PREVIEW) \o <<".", ".", ".">>

ScoreEntry(cand, method, similarity) ==
    [doc_id |-> cand[1], title |-> cand[2], content |-> Preview(cand[3]),
     method |-> method, similarity |-> similarity]

\* results.append(...) without the test of the score
RetainAll(results, cand, method, score) ==
    Append(results, ScoreEntry(cand, method, score))

\* "if score > 0.1: results.append(...)"
Retain(results, cand, method, score) ==
    IF score > SIGNIFICANT THEN Append(results, ScoreEntry(cand, method, score))
    ELSE results

\* TFIDFChecker.calculate_similarity, first part of fit_transform: the count
\* matrix of the two texts; an empty vocabulary raises ValueError, which the
\* loop's except clause absorbs
TfidfCount(t) ==
    /\ run[t].pc = "score"
    /\ run[t].idx <= Len(run[t].reference_files)
    /\ LET X == CountMatrix(run[t].uploaded_text, Candidate(t)[3]) IN
         IF X.vocab = <<>>
         THEN /\ run' = [run EXCEPT ![t].pc = "bert", ![t].tfidf_raised = TRUE,
                                    ![t].skipped = run[t].skipped
                                                     \cup {<<Candidate(t)[1], "tfidf">>},
                                    ![t].scorer_calls = run[t].scorer_calls + 1]
              /\ UNCHANGED vectorizer
         ELSE /\ run' = [run EXCEPT ![t].pc = "tfidf_fit", ![t].X = X,
                                    ![t].tfidf_raised = FALSE,
                                    ![t].scorer_calls = run[t].scorer_calls + 1]
              /\ vectorizer' = [vectorizer EXCEPT !.vocabulary_ = X.vocab]
    /\ UNCHANGED <<documents, plagiarism_reports, user_submissions,
                   bert_model, contract, client, clock, call>>

\* second part of fit_transform: the idf vector is fitted and kept on the
\* vectorizer object
TfidfFit(t) ==
    /\ run[t].pc = "tfidf_fit"
    /\ vectorizer' = [vectorizer EXCEPT !.idf_ = FitIdf(run[t].X)]
    /\ Goto(t, "tfidf_transform")
    /\ UNCHANGED <<documents, plagiarism_reports, user_submissions,
                   bert_model, contract, client, clock, call>>

\* TfidfTransformer.transform multiplies the call's count matrix by the idf
\* vector the vectorizer holds now: a vector of another length raises
TransformRaises(X, idf) == Len(idf) # Len(X.vocab)

\* last part of fit_transform and cosine_similarity
TfidfTransform(t) ==
    /\ run[t].pc = "tfidf_transform"
    /\ IF TransformRaises(run[t].X, vectorizer.idf_)
       THEN run' = [run EXCEPT ![t].pc = "bert", ![t].X = NoMatrix,
                               ![t].skipped = run[t].skipped
                                                \cup {<<Candidate(t)[1], "tfidf">>},
                               ![t].tfidf_raised = TRUE]
       ELSE LET tfidf_score == TfidfCosine(run[t].X, vectorizer.idf_) IN
            run' = [run EXCEPT ![t].pc = "bert", ![t].X = NoMatrix,
                      ![t].tfidf_score = tfidf_score,
                      ![t].similarity_results =
                          Retain(run[t].similarity_results, Candidate(t),
                                 "tfidf", tfidf_score)]
    /\ UNCHANGED <<documents, plagiarism_reports, user_submissions, vectorizer,
                   bert_model, contract, client, clock, call>>

\* BERTChecker.calculate_similarity: 0.0 without a model, else the cosine
BertSimilarity(model, doc1, doc2) ==
    IF model # "loaded" THEN 0
    ELSE cos_sim(Embed(doc1), Embed(doc2))

\* the BERT half of the loop body, and the step to the next candidate
Bert(t) ==
    /\ run[t].pc = "bert"
    /\ LET bert_score == BertSimilarity(bert_model, run[t].uploaded_text, Candidate(t)[3]) IN
         run' = [run EXCEPT ![t].pc = "score", ![t].idx = run[t].idx + 1,
                   ![t].bert_score = bert_score,
                   ![t].scorer_calls = run[t].scorer_calls + 1,
                   ![t].similarity_results =
                       Retain(run[t].similarity_results, Candidate(t), "bert", bert_score)]
    /\ UNCHANGED <<documents, plagiarism_reports, user_submissions, vectorizer,
                   bert_model, contract, client, clock, call>>

\* any other exception inside a scorer call (the vectorizer's, or the
\* model's while it encodes): the except clause of the call absorbs it and
\* the loop goes on; without a model the BERT call returns before it can raise
ScorerRaises(t) ==
    /\ \/ /\ run[t].pc = "score"
          /\ run[t].idx <= Len(run[t].reference_files)
          /\ run' = [run EXCEPT ![t].pc = "bert", ![t].tfidf_raised = TRUE,
                                ![t].skipped = run[t].skipped
                                                 \cup {<<Candidate(t)[1], "tfidf">>},
                                ![t].scorer_calls = run[t].scorer_calls + 1]
       \/ /\ run[t].pc = "bert"
          /\ bert_model = "loaded"
          /\ run' = [run EXCEPT ![t].pc = "score", ![t].idx = run[t].idx + 1,
                                ![t].skipped = run[t].skipped
                                                 \cup {<<Candidate(t)[1], "bert">>},
                                ![t].scorer_calls = run[t].scorer_calls + 1]
    /\ UNCHANGED <<documents, plagiarism_reports, user_submissions, vectorizer,
                   bert_model, contract, client, clock, call>>

(***************************************************************************)
(* services/report_service.py                                              *)
(***************************************************************************)
\* every method with the weight 1.0
UnitWeight(method) == 10

\* weights of the methods, in tenths
Weight(method) ==
    CASE method = "tfidf" -> 4
      [] method = "bert" -> 6
      [] OTHER -> 5

\* the unit of an overall score is 1/60 of a thousandth: 0.8 is 800 * Thousandth
Thousandth == 60

\* sum(weighted_scores), without the division
sum_of_weighted_scores(results) ==
    Thousandth * SumSeq([i \in DOMAIN results |->
                            results[i].similarity * Weight(results[i].method)])

\* the weighted scores normalised by the total of the scores
score_weighted_average(results) ==
    LET total == SumSeq([i \in DOMAIN results |-> results[i].similarity])
    IN IF total = 0 THEN 0
       ELSE (Thousandth * 100 * SumSeq([i \in DOMAIN results |->
                 results[i].similarity * Weight(results[i].method)])) \div total

\* the weighted mean: the weighted scores normalised by the total weight
weighted_mean(results) ==
    IF results = <<>> THEN 0
    ELSE (Thousandth * 10 * SumSeq([i \in DOMAIN results |->
              results[i].similarity * Weight(results[i].method)]))
           \div SumSeq([i \in DOMAIN results |-> Weight(results[i].method)])

\* _calculate_overall_score: sum(weighted_scores) / len(weighted_scores)
calculate_overall_score(results) ==
    IF results = <<>> THEN 0
    ELSE (Thousandth * SumSeq([i \in DOMAIN results |->
              results[i].similarity * Weight(results[i].method)]))
           \div Len(results)

\* the comparisons written with ">" as in _generate_recommendations
classify_plagiarism_level_above(score) ==
    IF score > 800 * Thousandth THEN "High"
    ELSE IF score > 500 * Thousandth THEN "Moderate"
    ELSE IF score > 200 * Thousandth THEN "Low"
    ELSE "Minimal"

\* _classify_plagiarism_level
classify_plagiarism_level(score) ==
    IF score >= 800 * Thousandth THEN "High"
    ELSE IF score >= 500 * Thousandth THEN "Moderate"
    ELSE IF score >= 200 * Thousandth THEN "Low"
    ELSE "Minimal"

\* the comparisons written with ">"
classify_risk_level_above(similarity) ==
    IF similarity > 80 THEN "High Risk"
    ELSE IF similarity > 50 THEN "Medium Risk"
    ELSE IF similarity > 30 THEN "Low Risk"
    ELSE "Safe"

\* _classify_risk_level, of a similarity in hundredths
classify_risk_level(similarity) ==
    IF similarity >= 80 THEN "High Risk"
    ELSE IF similarity >= 50 THEN "Medium Risk"
    ELSE IF similarity >= 30 THEN "Low Risk"
    ELSE "Safe"

\* sorted(results, key=similarity, reverse=True): stable, so equal entries
\* keep their order
RECURSIVE SortBySimilarity(_)
SortBySimilarity(results) ==
    IF results = <<>> THEN <<>>
    ELSE LET top == CHOOSE i \in DOMAIN results :
                        /\ \A j \in DOMAIN results :
                               results[j].similarity <= results[i].similarity
                        /\ \A j \in 1..(i - 1) :
                               results[j].similarity < results[i].similarity
         IN <<results[top]>> \o
            SortBySimilarity(SubSeq(results, 1, top - 1)
                             \o SubSeq(results, top + 1, Len(results)))

\* the filter written with ">="
analyze_sources_from(results) ==
    LET sorted_results == SortBySimilarity(results)
        significant == SelectSeq(sorted_results, LAMBDA r : r.similarity >= 30)
    IN [i \in DOMAIN significant |->
           [title |-> significant[i].title, similarity |-> significant[i].similarity,
            method |-> significant[i].method, doc_id |-> significant[i].doc_id,
            risk_level |-> classify_risk_level(significant[i].similarity)]]

\* _analyze_sources
analyze_sources(results) ==
    LET sorted_results == SortBySimilarity(results)
        significant == SelectSeq(sorted_results, LAMBDA r : r.similarity > 30)
    IN [i \in DOMAIN significant |->
           [title |-> significant[i].title, similarity |-> significant[i].similarity,
            method |-> significant[i].method, doc_id |-> significant[i].doc_id,
            risk_level |-> classify_risk_level(significant[i].similarity)]]

\* text.split('.'): the pieces between full stops, empty pieces included
SplitDot(s) ==
    LET dots == {i \in DOMAIN s : s[i] = "."}
        \* the position of the k-th full stop; 0 and Len(s) + 1 bound the text
        dot(k) == IF k = 0 THEN 0
                  ELSE IF k > Cardinality(dots) THEN Len(s) + 1
                  ELSE CHOOSE i \in dots : Cardinality({j \in dots : j < i}) = k - 1
    IN [k \in 1..(Cardinality(dots) + 1) |-> SubSeq(s, dot(k - 1) + 1, dot(k) - 1)]

\* str.strip()
RECURSIVE Strip(_)
Strip(s) ==
    IF s = <<>> THEN s
    ELSE IF s[1] \in WhiteSpace THEN Strip(Tail(s))
    ELSE IF s[Len(s)] \in WhiteSpace THEN Strip(SubSeq(s, 1, Len(s) - 1))
    ELSE s

\* "needle in haystack"
Contains(haystack, needle) ==
    \E k \in 0..(Len(haystack) - Len(needle)) :
        SubSeq(haystack, k + 1, k + Len(needle)) = needle

RECURSIVE Flatten(_)
Flatten(ss) == IF ss = <<>> THEN <<>> ELSE ss[1] \o Flatten(Tail(ss))

\* the sections of every entry that _analyze_sources lists
identify_listed_sections(text, results) ==
    LET sentences == SplitDot(text)
        hits(i) ==
            IF Len(Strip(sentences[i])) < 10 THEN <<>>
            ELSE LET matching == SelectSeq(results, LAMBDA r :
                                     /\ r.similarity > 30
                                     /\ Contains(Lower(r.content),
                                                 Lower(Strip(sentences[i]))))
                 IN [k \in DOMAIN matching |->
                        [sentence_index |-> i - 1, sentence |-> Strip(sentences[i]),
                         similarity |-> matching[k].similarity,
                         source |-> matching[k].title,
                         source_id |-> matching[k].doc_id]]
    IN Flatten([i \in DOMAIN sentences |-> hits(i)])

\* _identify_plagiarized_sections
identify_plagiarized_sections(text, results) ==
    LET sentences == SplitDot(text)
        hits(i) ==
            IF Len(Strip(sentences[i])) < 10 THEN <<>>
            ELSE LET matching == SelectSeq(results, LAMBDA r :
                                     /\ r.similarity > 70
                                     /\ Contains(Lower(r.content),
                                                 Lower(Strip(sentences[i]))))
                 IN [k \in DOMAIN matching |->
                        [sentence_index |-> i - 1, sentence |-> Strip(sentences[i]),
                         similarity |-> matching[k].similarity,
                         source |-> matching[k].title,
                         source_id |-> matching[k].doc_id]]
    IN Flatten([i \in DOMAIN sentences |-> hits(i)])

\* _estimate_reading_level
estimate_reading_level(text) ==
    LET words == Split(text)
        sentences == SplitDot(text)
        letters == SumSeq([i \in DOMAIN words |-> Len(words[i])])
    IN IF words = <<>> THEN "Unknown"
       ELSE IF letters > 6 * Len(words) /\ Len(words) > 20 * Len(sentences)
            THEN "Advanced"
       ELSE IF letters > 4 * Len(words) /\ Len(words) > 15 * Len(sentences)
            THEN "Intermediate"
       ELSE "Basic"

\* _analyze_document_stats (the average is kept as the pair it divides)
analyze_document_stats(text) ==
    [word_count |-> Len(Split(text)), sentence_count |-> Len(SplitDot(text)),
     character_count |-> Len(text),
     average_words_per_sentence |-> <<Len(Split(text)), Len(SplitDot(text))>>,
     reading_level |-> estimate_reading_level(text)]

\* _generate_recommendations: the messages, by name
generate_recommendations(overall_score, sections) ==
    <<IF overall_score > 800 * Thousandth THEN <<"rewrite", 0>>
      ELSE IF overall_score > 500 * Thousandth THEN <<"paraphrase", 0>>
      ELSE IF overall_score > 200 * Thousandth THEN <<"add_citations", 0>>
      ELSE <<"appears_original", 0>>>>
    \o (IF sections # <<>> THEN <<<<"pay_attention", Len(sections)>>>> ELSE <<>>)
    \o <<<<"always_cite", 0>>, <<"use_detection_tools", 0>>>>

\* hashlib.md5(timestamp).hexdigest()[:8]: a function of the timestamp
Md5Prefix(timestamp) == <<"md5", timestamp>>

\* datetime.now().strftime("%Y%m%d_%H%M%S"): the time cut to whole seconds
Strftime(now) == now \div TicksPerSecond

\* _generate_report_id at clock value `now`: f"PLAG_{timestamp}_{random_part}"
generate_report_id(now) == <<"PLAG", Strftime(now), Md5Prefix(Strftime(now))>>

\* "total_sources_checked": len(similarity_results)
total_sources_checked(results) == Len(results)

\* generate_plagiarism_report, with the two clock readings it makes
generate_plagiarism_report(text, results, now_id, now_stamp) ==
    LET overall_score == calculate_overall_score(results)
        sections == identify_plagiarized_sections(text, results)
    IN [report_id |-> generate_report_id(now_id),
        timestamp |-> now_stamp,
        overall_score |-> overall_score,
        plagiarism_level |-> classify_plagiarism_level(overall_score),
        detection_methods |-> <<"TF-IDF", "BERT">>,
        total_sources_checked |-> total_sources_checked(results),
        sources |-> analyze_sources(results),
        plagiarized_sections |-> sections,
        document_stats |-> analyze_document_stats(text),
        recommendations |-> generate_recommendations(overall_score, sections),
        blockchain_verification |-> Absent,
        ipfs_storage |-> Absent]

(***************************************************************************)
(* ReportService methods called directly, as the tests call them           *)
(***************************************************************************)
NoCall == [method |-> "none", arg |-> <<>>, result |-> <<>>]

\* similarities a scorer can return, in hundredths of [0, 1]
MaxSimilarity == 100

ProbeSimilarities == {0, 1, 10, 11, 50, MaxSimilarity}

\* entries as _run_detection_methods builds them
ProbeEntries ==
    {ScoreEntry(<<1, Doc_A.title, Doc_A.content>>, method, similarity) :
        method \in {"tfidf", "bert"}, similarity \in ProbeSimilarities}

MaxEntries == 3

ResultLists == SeqsUpTo(ProbeEntries, MaxEntries)

\* overall scores from 0.000 to 1.000
MaxScore == 1000

LevelScores == {s * Thousandth : s \in 0..MaxScore}

\* self._calculate_overall_score(similarity_results)
CallOverallScore ==
    /\ call.method = "none"
    /\ \E results \in ResultLists :
         call' = [method |-> "_calculate_overall_score", arg |-> results,
                  result |-> calculate_overall_score(results)]
    /\ UNCHANGED <<documents, plagiarism_reports, user_submissions, vectorizer,
                   bert_model, contract, client, clock, run>>

\* self._classify_plagiarism_level(score)
CallClassifyPlagiarismLevel ==
    /\ call.method = "none"
    /\ \E score \in LevelScores :
         call' = [method |-> "_classify_plagiarism_level", arg |-> score,
                  result |-> classify_plagiarism_level(score)]
    /\ UNCHANGED <<documents, plagiarism_reports, user_submissions, vectorizer,
                   bert_model, contract, client, clock, run>>

\* self._classify_risk_level(similarity)
CallClassifyRiskLevel ==
    /\ call.method = "none"
    /\ \E similarity \in 0..MaxSimilarity :
         call' = [method |-> "_classify_risk_level", arg |-> similarity,
                  result |-> classify_risk_level(similarity)]
    /\ UNCHANGED <<documents, plagiarism_reports, user_submissions, vectorizer,
                   bert_model, contract, client, clock, run>>

\* entries of two candidates, with similarities on both sides of the
\* thresholds of the report (0.3, 0.5, 0.7, 0.8)
ReportEntries ==
    {ScoreEntry(<<1, Doc_ML.title, Doc_ML.content>>, method, similarity) :
        method \in {"tfidf", "bert"}, similarity \in {31, 50, 71, 100}}
    \cup {ScoreEntry(<<2, Doc_C.title, Doc_C.content>>, "tfidf", similarity) :
            similarity \in {30, 71}}

ReportLists == SeqsUpTo(ReportEntries, MaxEntries)

\* self.generate_plagiarism_report(uploaded_text, similarity_results, ...)
CallGenerateReport ==
    /\ call.method = "none"
    /\ \E results \in ReportLists :
         call' = [method |-> "generate_plagiarism_report",
                  arg |-> [uploaded_text |-> T_ML, similarity_results |-> results],
                  result |-> generate_plagiarism_report(T_ML, results, clock, clock)]
    /\ UNCHANGED <<documents, plagiarism_reports, user_submissions, vectorizer,
                   bert_model, contract, client, clock, run>>

(***************************************************************************)
(* check_document, steps 4 to 8                                            *)
(***************************************************************************)
\* step 4: the report is synthesised; the clock is read for the report id
\* and then for the timestamp, and never runs backwards
GenerateReport(t) ==
    /\ run[t].pc = "score"
    /\ run[t].idx > Len(run[t].reference_files)
    /\ \E now_id \in clock..MaxClock :
         \E now_stamp \in now_id..MaxClock :
           /\ clock' = now_stamp
           /\ run' = [run EXCEPT ![t].pc = "store",
                        ![t].report = generate_plagiarism_report(
                                          run[t].uploaded_text,
                                          run[t].similarity_results, now_id, now_stamp)]
    /\ UNCHANGED <<documents, plagiarism_reports, user_submissions, vectorizer,
                   bert_model, contract, client, call>>

\* the average of the similarities of one method, 0 when there is none
MethodAverage(results, method) ==
    LET scores == SelectSeq(results, LAMBDA r : r.method = method)
    IN IF scores = <<>> THEN 0
       ELSE SumSeq([i \in DOMAIN scores |-> scores[i].similarity]) \div Len(scores)

\* the row with the TF-IDF average in the place of the overall score
ReportRowOfAverage(id, report, document_hash, results) ==
    [id |-> id, report_hash |-> report.report_id, document_hash |-> document_hash,
     document_content |-> <<>>, overall_score |-> MethodAverage(results, "tfidf"),
     tfidf_score |-> MethodAverage(results, "tfidf"),
     bert_score |-> MethodAverage(results, "bert"),
     sources |-> report.sources,
     metadata |-> [plagiarized_sections |-> report.plagiarized_sections,
                   document_stats |-> report.document_stats,
                   recommendations |-> report.recommendations],
     blockchain_tx_hash |-> None, ipfs_hash |-> None]

\* the row _store_report_in_database inserts
ReportRow(id, report, document_hash, results) ==
    [id |-> id, report_hash |-> report.report_id, document_hash |-> document_hash,
     document_content |-> <<>>, overall_score |-> report.overall_score,
     tfidf_score |-> MethodAverage(results, "tfidf"),
     bert_score |-> MethodAverage(results, "bert"),
     sources |-> report.sources,
     metadata |-> [plagiarized_sections |-> report.plagiarized_sections,
                   document_stats |-> report.document_stats,
                   recommendations |-> report.recommendations],
     blockchain_tx_hash |-> None, ipfs_hash |-> None]

\* report_hash TEXT UNIQUE: the INSERT fails when the table holds the hash
UniqueViolation(table, report_hash) ==
    \E i \in DOMAIN table : table[i].report_hash = report_hash

\* Database.get_plagiarism_report: fetchone() of the rows with this hash
NoRow == [id |-> 0]

get_plagiarism_report(table, report_hash) ==
    LET found == {i \in DOMAIN table : table[i].report_hash = report_hash}
    IN IF found = {} THEN NoRow
       ELSE table[CHOOSE i \in found : \A j \in found : i <= j]

\* step 5: _store_report_in_database on the shared connection self.db.conn;
\* sqlite3.IntegrityError leaves check_document
StoreReport(t) ==
    /\ run[t].pc = "store"
    /\ IF UniqueViolation(plagiarism_reports, run[t].report.report_id)
       THEN /\ run' = [run EXCEPT ![t].pc = "raised", ![t].error = "IntegrityError"]
            /\ UNCHANGED plagiarism_reports
       ELSE /\ plagiarism_reports' =
                   Append(plagiarism_reports,
                          ReportRow(Len(plagiarism_reports) + 1, run[t].report,
                                    run[t].document_hash, run[t].similarity_results))
            /\ run' = [run EXCEPT ![t].pc = "anchor", ![t].stored = TRUE]
    /\ UNCHANGED <<documents, user_submissions, vectorizer,
                   bert_model, contract, client, clock, call>>

\* what store_report_on_blockchain can return: None without contract or
\* key, else the receipt's status, or "error" when the transaction raises
AnchorOutcomes == IF contract THEN {"success", "failed", "error"} ELSE {"none"}

\* "if result:" without the test of the status
AcceptedAny(status) == status # "none"

\* "if result and result.get('status') == 'success'"
Accepted(status) == status = "success"

\* step 6: anchoring, when store_on_blockchain
Anchor(t) ==
    /\ run[t].pc = "anchor"
    /\ IF run[t].store_on_blockchain
       THEN \E status \in AnchorOutcomes :
              run' = [run EXCEPT ![t].pc = "archive", ![t].anchor_result = status,
                        ![t].report.blockchain_verification =
                            IF Accepted(status)
                            THEN [status |-> status,
                                  report_hash |-> run[t].report.report_id,
                                  document_hash |-> Sha256(run[t].uploaded_text)]
                            ELSE Absent]
       ELSE Goto(t, "archive")
    /\ UNCHANGED <<documents, plagiarism_reports, user_submissions, vectorizer,
                   bert_model, contract, client, clock, call>>

\* what IPFSService.store_report can return: None without a client
ArchiveOutcomes == IF client THEN {"success", "error"} ELSE {"none"}

\* step 7: archiving
Archive(t) ==
    /\ run[t].pc = "archive"
    /\ \E status \in ArchiveOutcomes :
         run' = [run EXCEPT ![t].pc = "track", ![t].archive_result = status,
                   ![t].report.ipfs_storage =
                       IF Accepted(status)
                       THEN [status |-> status, ipfs_hash |-> "Qm"]
                       ELSE Absent]
    /\ UNCHANGED <<documents, plagiarism_reports, user_submissions, vectorizer,
                   bert_model, contract, client, clock, call>>

\* the row add_user_submission inserts
SubmissionRow(id, f, document_hash, user_id, report_id) ==
    [id |-> id, filename |-> f.name, file_path |-> f.name, file_hash |-> document_hash,
     user_id |-> user_id, report_id |-> report_id, status |-> "completed"]

\* the test left out: every submission is tracked
TruthyAlways(user_id) == TRUE

\* "if user_id:"
Truthy(user_id) == user_id \notin {None, ""}

\* step 8 and "return report"
Track(t) ==
    /\ run[t].pc = "track"
    /\ IF Truthy(run[t].user_id)
       THEN /\ user_submissions' =
                   Append(user_submissions,
                          SubmissionRow(Len(user_submissions) + 1, run[t].uploaded_file,
                                        run[t].document_hash, run[t].user_id,
                                        run[t].report.report_id))
            /\ run' = [run EXCEPT ![t].pc = "returned", ![t].tracked = TRUE]
       ELSE /\ Goto(t, "returned")
            /\ UNCHANGED user_submissions
    /\ UNCHANGED <<documents, plagiarism_reports, vectorizer,
                   bert_model, contract, client, clock, call>>

\* PlagiarismService.get_user_reports: the user's submissions, newest first,
\* each with the plagiarism_reports row "WHERE id = ?" of its report_id
\* column.  The column holds what _track_user_submission passed, the
\* report's "PLAG_..." string, which SQLite keeps as TEXT in the INTEGER
\* column (it is not numeric); an INTEGER id and a TEXT value are never equal.
get_user_reports(submissions, reports, user_id) ==
    LET mine == SelectSeq(submissions, LAMBDA s : s.user_id = user_id)
        newest_first == [i \in DOMAIN mine |-> mine[Len(mine) + 1 - i]]
        found(s) == {i \in DOMAIN reports :
                        <<"INTEGER", reports[i].id>> = <<"TEXT", s.report_id>>}
        paired == SelectSeq(newest_first, LAMBDA s : s.report_id # <<>> /\ found(s) # {})
    IN [i \in DOMAIN paired |->
           [submission |-> paired[i],
            report |-> reports[CHOOSE r \in found(paired[i]) : TRUE]]]

(***************************************************************************)
(* Specifications                                                          *)
(***************************************************************************)
NoVectorizer == [vocabulary_ |-> <<>>, idf_ |-> <<>>]

\* how the service is deployed: the embedding model, the anchoring contract
\* and the archive client are there or not
Deployments ==
    {[bert_model |-> b, contract |-> c, client |-> i] :
        b \in {"loaded", "none"}, c \in BOOLEAN, i \in BOOLEAN}

FullDeployment == [bert_model |-> "loaded", contract |-> TRUE, client |-> TRUE]

\* the service after construction, over a corpus and in a deployment
InitWith(corpora, deployments) ==
    /\ documents \in corpora
    /\ plagiarism_reports = <<>>
    /\ user_submissions = <<>>
    /\ vectorizer = NoVectorizer
    /\ \E d \in deployments :
         /\ bert_model = d.bert_model
         /\ contract = d.contract
         /\ client = d.client
    /\ clock = 0
    /\ run = [t \in Threads |-> FreshRun]
    /\ call = NoCall

\* the steps of check_document that every run can take
Pipeline(t, faults) ==
    \/ ReadFile(t)
    \/ GetConnection(t)
    \/ Stage1Query(t, faults)
    \/ TryFallback(t, faults)
    \/ CloseConn(t)
    \/ TfidfCount(t)
    \/ TfidfFit(t)
    \/ TfidfTransform(t)
    \/ Bert(t)
    \/ GenerateReport(t)
    \/ StoreReport(t)
    \/ Anchor(t)
    \/ Archive(t)
    \/ Track(t)

(* One request, any input, over small and large corpora, on a database    *)
(* whose statements may fail.                                              *)
Requests ==
    {Request(f, UseDatabase, u, sob) : f \in Files, u \in {None, "u1"}, sob \in BOOLEAN}
    \cup {Request(F_CatsAi, GivenFiles(<<F_Dogs>>), None, FALSE),
          Request(F_CatsAi, GivenFiles(<<F_Dogs, F_BadPdf>>), "u1", TRUE)}

Init ==
    \/ InitWith(SmallCorpora, Deployments)
    \/ InitWith(LargeCorpora, {FullDeployment})

Next ==
    \/ Call(1, Requests, FALSE)
    \/ Pipeline(1, TRUE)
    \/ ExceptFallback(1)
    \/ ReadReferences(1)

Spec == Init /\ [][Next]_vars

(* Two requests served one after the other by the same service, on a       *)
(* database whose statements succeed; a scorer call may raise, and the     *)
(* embedding model may be missing.                                         *)
RunsDeployments ==
    {[bert_model |-> b, contract |-> TRUE, client |-> TRUE] : b \in {"loaded", "none"}}

RunsCorpora == {WithIds(<<>>), WithIds(<<Doc_A>>)}

RunsRequests ==
    {Request(f, UseDatabase, None, FALSE) : f \in {F_CatsAi, F_The42, F_Exe}}
    \cup {Request(F_CatsAi, UseDatabase, "u1", TRUE)}

InitRuns == InitWith(RunsCorpora, RunsDeployments)

NextRuns ==
    \/ \E t \in Threads : Call(t, RunsRequests, FALSE)
    \/ \E t \in Threads : Pipeline(t, FALSE)
    \/ \E t \in Threads : ScorerRaises(t)

SpecRuns == InitRuns /\ [][NextRuns]_vars

(* Two requests served by two threads of the same service (threaded=True), *)
(* their steps interleaved, on a database whose statements succeed.        *)
ThreadsCorpora == {WithIds(<<Doc_A>>)}

ThreadsRequests ==
    {Request(F_CatsAi, UseDatabase, "u1", TRUE),
     Request(F_The42, UseDatabase, None, FALSE)}

InitThreads == InitWith(ThreadsCorpora, {FullDeployment})

NextThreads ==
    \/ \E t \in Threads : Call(t, ThreadsRequests, TRUE)
    \/ \E t \in Threads : Pipeline(t, FALSE)

SpecThreads == InitThreads /\ [][NextThreads]_vars

(* One request whose submission is a sentence, over corpora that hold the  *)
(* sentence, in any deployment, on a database whose statements succeed.    *)
SentenceRequests ==
    {Request(f, UseDatabase, u, sob) :
        f \in {F_ML, F_Dogs}, u \in {None, "u1"}, sob \in BOOLEAN}

InitSentence == InitWith(SentenceCorpora, Deployments)

NextSentence ==
    \/ Call(1, SentenceRequests, FALSE)
    \/ Pipeline(1, FALSE)

SpecSentence == InitSentence /\ [][NextSentence]_vars

(* One request whose submission has more distinct tokens than the index    *)
(* query takes, over an empty corpus and a corpus of more than             *)
(* MAX_CANDIDATES rows, on a database whose statements succeed.            *)
InitQuery == InitWith({WithIds(<<>>), CycleCorpus(MaxCorpus, 0)}, {FullDeployment})

NextQuery ==
    \/ Call(1, {Request(F_Many, UseDatabase, None, FALSE)}, FALSE)
    \/ Pipeline(1, FALSE)

SpecQuery == InitQuery /\ [][NextQuery]_vars

(* One method of a ReportService called directly, with a score or entries  *)
(* drawn from bounded sets.                                                *)
InitReportService == InitWith({WithIds(<<>>)}, {FullDeployment})

NextReportService ==
    \/ CallOverallScore
    \/ CallClassifyPlagiarismLevel
    \/ CallClassifyRiskLevel
    \/ CallGenerateReport

SpecReportService == InitReportService /\ [][NextReportService]_vars

(***************************************************************************)
(* Properties of one run                                                   *)
(***************************************************************************)
\* a run that selects its candidates from the database has left selection
Selected(t) ==
    /\ ~run[t].reference_arg.given
    /\ run[t].pc \in {"score", "tfidf_fit", "tfidf_transform", "bert", "store",
                      "anchor", "archive", "track", "returned"}

\* the first rows of the documents table, at most a hundred of them
BoundedSample ==
    [i \in 1..(IF Len(documents) < 100 THEN Len(documents) ELSE 100) |->
        <<documents[i].id, documents[i].title, documents[i].content>>]

\* C3: with reference_files=None the candidate list handed to scoring never
\* holds more than 100 documents, whichever selection path produced it
C3_CandidatesBounded ==
    \A t \in Threads :
        ~run[t].reference_arg.given => Len(run[t].reference_files) <= 100

\* a run over a corpus of more than 100 rows is scoring exactly 100 candidates
C3_Witness ==
    \E t \in Threads :
        /\ Selected(t)
        /\ Len(documents) > 100
        /\ Len(run[t].reference_files) = 100
        /\ run[t].scorer_calls > 0

\* C4: when the index query raises, candidate selection still completes and
\* no exception from candidate selection reaches the caller of check_document
C4_SelectionNeverRaises ==
    \A t \in Threads :
        run[t].fts_raised => ~(run[t].pc = "raised" /\ run[t].error = "sqlite3.Error")

\* C5: the bounded sample is the candidate set in exactly three cases: the
\* submission has no tokens, the index returns no rows, the index query
\* raises; in no other case is the sample used
C5_SampleExactlyInThreeCases ==
    \A t \in Threads :
        Selected(t) =>
            IF run[t].path \in {"no_tokens", "no_rows", "index_raised"}
            THEN run[t].used_sample /\ run[t].reference_files = BoundedSample
            ELSE /\ run[t].path = "index"
                 /\ ~run[t].used_sample
                 /\ run[t].reference_files # <<>>

\* the index returned no rows and the run scores the sample of a corpus
\* that is not empty
C5_Witness ==
    \E t \in Threads :
        /\ Selected(t)
        /\ run[t].path = "no_rows"
        /\ run[t].used_sample
        /\ run[t].reference_files = BoundedSample
        /\ run[t].reference_files # <<>>
        /\ run[t].scorer_calls > 0

\* C6: in a run where the index query raised, the report's
\* total_sources_checked equals the size of the fallback sample
C6_TotalIsSampleSize ==
    \A t \in Threads :
        (run[t].fts_raised /\ run[t].report # NoReport) =>
            run[t].report.total_sources_checked = Len(run[t].reference_files)

\* the submitted file is one that read_file cannot parse
Unparseable(f) == f.ext \notin {".txt", ".docx", ".pdf"} \/ ~f.readable

\* C7: a submission that cannot be parsed makes check_document raise, and
\* then no connection was opened, no scorer was called, and no report was
\* generated, persisted, anchored, archived or tracked
C7_UnparseableRaisesFirst ==
    \A t \in Threads :
        (run[t].pc # "idle" /\ Unparseable(run[t].uploaded_file)) =>
            /\ run[t].pc \in {"read_file", "raised"}
            /\ run[t].conn = "none"
            /\ run[t].scorer_calls = 0
            /\ run[t].report = NoReport
            /\ ~run[t].stored
            /\ Len(plagiarism_reports) = run[t].reports_before
            /\ run[t].anchor_result = "not_called"
            /\ run[t].archive_result = "not_called"
            /\ ~run[t].tracked
            /\ Len(user_submissions) = run[t].submissions_before

\* check_document has raised on a file with an unsupported extension
C7_Witness ==
    \E t \in Threads :
        /\ run[t].pc = "raised"
        /\ run[t].uploaded_file.ext = ".exe"
        /\ run[t].error = "ValueError"

\* C10: every value returned by the TF-IDF and the embedding
\* calculate_similarity lies in [0, 1], a negative cosine included
C10_ScoresInUnitInterval ==
    \A t \in Threads :
        /\ 0 <= run[t].tfidf_score /\ run[t].tfidf_score <= 100
        /\ 0 <= run[t].bert_score /\ run[t].bert_score <= 100

\* C13: when anchoring or archiving is unconfigured or fails, check_document
\* still returns the core report, and the report holds
\* blockchain_verification (resp. ipfs_storage) exactly when that service
\* returned status "success"
C13_EnrichmentOnlyOnSuccess ==
    \A t \in Threads :
        /\ (run[t].anchor_result # "not_called" \/ run[t].archive_result # "not_called")
              => (run[t].pc # "raised" /\ run[t].report # NoReport /\ run[t].stored)
        /\ run[t].pc \in {"archive", "track", "returned"}
              => ((run[t].report.blockchain_verification # [status |-> "absent"])
                     <=> run[t].anchor_result = "success")
        /\ run[t].pc \in {"track", "returned"}
              => ((run[t].report.ipfs_storage # [status |-> "absent"])
                     <=> run[t].archive_result = "success")

\* a run has returned its report after the transaction failed and the
\* archive raised; another service was not configured
C13_Witness ==
    \E t \in Threads :
        /\ run[t].pc = "returned"
        /\ run[t].anchor_result = "failed"
        /\ run[t].archive_result = "error"
        /\ run[t].report.blockchain_verification = [status |-> "absent"]
        /\ run[t].report.ipfs_storage = [status |-> "absent"]
        /\ run[t].report.total_sources_checked > 0

\* C15: every ScoreEntry passed on to aggregation has a similarity above
\* 0.1; a score at or below 0.1 is discarded before ranking or averaging
C15_OnlySignificantEntries ==
    \A t \in Threads :
        /\ \A i \in DOMAIN run[t].similarity_results :
              run[t].similarity_results[i].similarity > 10
        /\ run[t].report # NoReport =>
              /\ \A i \in DOMAIN run[t].report.sources :
                    run[t].report.sources[i].similarity > 10
              /\ \A i \in DOMAIN run[t].report.plagiarized_sections :
                    run[t].report.plagiarized_sections[i].similarity > 10
              /\ run[t].report.total_sources_checked = Len(run[t].similarity_results)
        /\ (run[t].pc = "bert" /\ ~run[t].tfidf_raised /\ run[t].tfidf_score <= 10)
              => ~\E i \in DOMAIN run[t].similarity_results :
                    /\ run[t].similarity_results[i].doc_id = Candidate(t)[1]
                    /\ run[t].similarity_results[i].method = "tfidf"

\* a report was made of a run in which one score was discarded and another
\* kept
C15_Witness ==
    \E t \in Threads :
        /\ run[t].report # NoReport
        /\ run[t].scorer_calls = 2
        /\ run[t].tfidf_score = 0
        /\ run[t].bert_score = 70
        /\ Len(run[t].similarity_results) = 1
        /\ Len(run[t].report.sources) = 1

(***************************************************************************)
(* Properties of runs that follow or overlap other runs                    *)
(***************************************************************************)
\* C1: check_document raises to its caller only when the submitted file
\* cannot be parsed; every run whose submission parses returns a Report,
\* runs that follow earlier runs included
C1_RaisesOnlyOnUnparseable ==
    \A t \in Threads :
        run[t].pc = "raised" => Unparseable(run[t].uploaded_file)

\* C2: two reports generated within the same wall-clock second carry
\* distinct report_id values
C2_DistinctIdsWithinSecond ==
    \A t, u \in Threads :
        (/\ t # u
         /\ run[t].report # NoReport
         /\ run[u].report # NoReport
         /\ run[t].report.timestamp \div TicksPerSecond
              = run[u].report.timestamp \div TicksPerSecond)
        => run[t].report.report_id # run[u].report.report_id

\* _run_detection_methods executed alone: the loop over the candidates, each
\* scorer call running from start to end
RECURSIVE run_detection_methods(_, _, _)
run_detection_methods(model, uploaded_text, reference_files) ==
    IF reference_files = <<>> THEN <<>>
    ELSE LET n == Len(reference_files)
             cand == reference_files[n]
             before == run_detection_methods(model, uploaded_text,
                                             SubSeq(reference_files, 1, n - 1))
             X == CountMatrix(uploaded_text, cand[3])
             with_tfidf == IF X.vocab = <<>> THEN before
                           ELSE Retain(before, cand, "tfidf", TfidfCosine(X, FitIdf(X)))
         IN Retain(with_tfidf, cand, "bert",
                   BertSimilarity(model, uploaded_text, cand[3]))

\* stage 1 on a database whose statements succeed
select_candidates(docs, cleaned_text) ==
    LET rows == IF deduped_tokens(cleaned_text) = <<>> THEN <<>>
                ELSE FtsQuery(docs, query_tokens(cleaned_text))
    IN IF rows = <<>> THEN SampleQuery(docs) ELSE rows

\* C8: under every interleaving of two concurrent runs, each run ends with
\* the outcome it has when executed alone: it returns, and its report and
\* its persisted row hold what the run alone computes
C8_ConcurrentRunsAsAlone ==
    \A t \in Threads :
        (run[t].pc \in Finished /\ ~Unparseable(run[t].uploaded_file)) =>
            LET alone == run_detection_methods(bert_model, run[t].uploaded_text,
                             select_candidates(documents, run[t].cleaned_text))
            IN /\ run[t].pc = "returned"
               /\ run[t].report.overall_score = calculate_overall_score(alone)
               /\ run[t].report.sources = analyze_sources(alone)
               /\ run[t].report.total_sources_checked = Len(alone)
               /\ \E i \in DOMAIN plagiarism_reports :
                    /\ plagiarism_reports[i].report_hash = run[t].report.report_id
                    /\ plagiarism_reports[i].overall_score = calculate_overall_score(alone)

\* C9: TFIDFChecker.calculate_similarity returns, when interleaved with
\* another call on the same checker, the value it returns alone
C9_TfidfCallAsAlone ==
    \A t \in Threads :
        run[t].pc = "bert" =>
            LET X == CountMatrix(run[t].uploaded_text, Candidate(t)[3])
            IN IF X.vocab = <<>> THEN run[t].tfidf_raised
               ELSE /\ ~run[t].tfidf_raised
                    /\ run[t].tfidf_score = TfidfCosine(X, FitIdf(X))

\* C11: without the embedding model every BERTChecker.calculate_similarity
\* call returns 0.0 and does not raise, the model never becomes available,
\* and the runs still return a report, with no semantic ScoreEntry
C11_RunsReturnWithoutModel ==
    \A t \in Threads :
        bert_model = "none" =>
            /\ run[t].bert_score = 0
            /\ \A e \in run[t].skipped : e[2] # "bert"
            /\ \A i \in DOMAIN run[t].similarity_results :
                  run[t].similarity_results[i].method # "bert"
            /\ (run[t].pc # "idle" /\ ~Unparseable(run[t].uploaded_file))
                  => run[t].pc # "raised"

\* the entries that _run_detection_methods alone produces, less those of the
\* calls that raised
WithoutSkipped(entries, skipped) ==
    SelectSeq(entries, LAMBDA e : <<e.doc_id, e.method>> \notin skipped)

\* C12: when a scorer raises on a candidate, no ScoreEntry is recorded for
\* that candidate and method, the other entries are those produced had it
\* not raised, and the run continues to a returned report
C12_ScorerFailureSkipsOneEntry ==
    \A t \in Threads :
        (/\ run[t].skipped # {}
         /\ run[t].pc \in {"store", "anchor", "archive", "track"} \cup Finished)
        => /\ run[t].similarity_results
                 = WithoutSkipped(run_detection_methods(bert_model, run[t].uploaded_text,
                                                        run[t].reference_files),
                                  run[t].skipped)
           /\ run[t].pc # "raised"

\* C14: whenever check_document returns a report, plagiarism_reports holds a
\* row whose report_hash is the report's report_id and whose overall_score
\* is the report's, and get_plagiarism_report(report_id) retrieves it
C14_ReturnedReportIsPersisted ==
    \A t \in Threads :
        run[t].pc = "returned" =>
            LET row == get_plagiarism_report(plagiarism_reports,
                                             run[t].report.report_id)
            IN /\ row # [id |-> 0]
               /\ row.report_hash = run[t].report.report_id
               /\ row.overall_score = run[t].report.overall_score
               /\ row.document_hash = run[t].document_hash

\* the second of two runs has returned a report with a positive score, and
\* the table holds the rows of both
C14_Witness ==
    /\ run[1].pc = "returned"
    /\ run[2].pc = "returned"
    /\ Len(plagiarism_reports) = 2
    /\ run[2].report.overall_score > 0
    /\ run[1].report.overall_score = 0

(***************************************************************************)
(* Properties of the ReportService methods                                 *)
(***************************************************************************)
\* C16: overall_score is the arithmetic mean, over the entries, of
\* similarity times the method weight (0.4 tfidf, 0.6 bert), and 0.0 when
\* there is no entry
C16_OverallScoreIsWeightedMean ==
    call.method = "_calculate_overall_score" =>
        LET results == call.arg
            thousandths(i) == results[i].similarity
                                * (IF results[i].method = "tfidf" THEN 4 ELSE 6)
        IN IF Len(results) = 0 THEN call.result = 0
           ELSE call.result * Len(results)
                  = 60 * SumSeq([i \in DOMAIN results |-> thousandths(i)])

\* the score of three entries of both methods has been computed
C16_Witness ==
    /\ call.method = "_calculate_overall_score"
    /\ Len(call.arg) = 3
    /\ call.arg[1].method = "tfidf" /\ call.arg[1].similarity = 50
    /\ call.arg[2].method = "bert" /\ call.arg[2].similarity = 100
    /\ call.arg[3].method = "bert" /\ call.arg[3].similarity = 11
    /\ call.result = 17320

\* C17: raising the similarity of one entry, the others and the weights
\* fixed, never decreases overall_score
C17_OverallScoreMonotone ==
    call.method = "_calculate_overall_score" =>
        \A i \in DOMAIN call.arg :
            \A raised \in ProbeSimilarities :
                raised >= call.arg[i].similarity =>
                    calculate_overall_score([call.arg EXCEPT ![i].similarity = raised])
                        >= call.result

\* a list of two entries whose score grows when its first similarity is
\* raised
C17_Witness ==
    /\ call.method = "_calculate_overall_score"
    /\ Len(call.arg) = 2
    /\ call.arg[1].similarity = 11
    /\ call.arg[2].similarity = 50
    /\ calculate_overall_score([call.arg EXCEPT ![1].similarity = 100]) > call.result

\* C18: for entries with similarities in [0,1] the overall_score lies in
\* [0,1], and it is above 0 when some entry has a positive similarity
C18_OverallScoreInUnitInterval ==
    call.method = "_calculate_overall_score" =>
        /\ 0 <= call.result
        /\ call.result <= 1000 * 60
        /\ (\E i \in DOMAIN call.arg : call.arg[i].similarity > 0) => call.result > 0

\* three entries of which one alone is positive, at 0.01
C18_Witness ==
    /\ call.method = "_calculate_overall_score"
    /\ Len(call.arg) = 3
    /\ call.arg[1].similarity = 0
    /\ call.arg[2].similarity = 1
    /\ call.arg[3].similarity = 0
    /\ call.result > 0

\* C19: plagiarism_level is a step function of overall_score alone: High
\* from 0.8, Moderate from 0.5, Low from 0.2, Minimal below
C19_PlagiarismLevelSteps ==
    call.method = "_classify_plagiarism_level" =>
        call.result = CASE call.arg >= 48000 -> "High"
                        [] call.arg >= 30000 /\ call.arg < 48000 -> "Moderate"
                        [] call.arg >= 12000 /\ call.arg < 30000 -> "Low"
                        [] OTHER -> "Minimal"

\* the score 0.8 itself has been classified
C19_Witness ==
    /\ call.method = "_classify_plagiarism_level"
    /\ call.arg = 48000
    /\ call.result = "High"

\* C20: risk_level is a step function of the similarity alone: High Risk
\* from 0.8, Medium Risk from 0.5, Low Risk from 0.3, Safe below
C20_RiskLevelSteps ==
    call.method = "_classify_risk_level" =>
        call.result = CASE call.arg >= 80 -> "High Risk"
                        [] call.arg >= 50 /\ call.arg < 80 -> "Medium Risk"
                        [] call.arg >= 30 /\ call.arg < 50 -> "Low Risk"
                        [] OTHER -> "Safe"

\* the similarity 0.3 itself has been classified
C20_Witness ==
    /\ call.method = "_classify_risk_level"
    /\ call.arg = 30
    /\ call.result = "Low Risk"

(***************************************************************************)
(* Properties of the reports                                               *)
(***************************************************************************)
\* the entries of a list that agree with x on doc_id, title, method and
\* similarity
C21_Like(list, x) ==
    {i \in DOMAIN list : /\ list[i].doc_id = x.doc_id
                         /\ list[i].title = x.title
                         /\ list[i].method = x.method
                         /\ list[i].similarity = x.similarity}

\* C21: the sources of a report hold one SourceSummary for each entry with
\* similarity above 0.3, none for an entry with similarity of 0.3 or less,
\* and are ordered by non-increasing similarity
C21_SourcesAboveThresholdRanked ==
    call.method = "generate_plagiarism_report" =>
        LET results == call.arg.similarity_results
            sources == call.result.sources
        IN /\ \A i \in DOMAIN results :
                 Cardinality(C21_Like(sources, results[i])) =
                     IF results[i].similarity > 30
                     THEN Cardinality(C21_Like(results, results[i])) ELSE 0
           /\ Len(sources) = Cardinality({i \in DOMAIN results : results[i].similarity > 30})
           /\ \A i, j \in DOMAIN sources :
                 i < j => sources[i].similarity >= sources[j].similarity

\* three entries given in increasing order, one of them at exactly 0.3:
\* two sources, the higher first
C21_Witness ==
    /\ call.method = "generate_plagiarism_report"
    /\ Len(call.arg.similarity_results) = 3
    /\ call.arg.similarity_results[1].similarity = 30
    /\ call.arg.similarity_results[2].similarity = 31
    /\ call.arg.similarity_results[3].similarity = 71
    /\ Len(call.result.sources) = 2
    /\ call.result.sources[1].similarity = 71

\* the content of the candidate that an entry of a run scores
C22_CandidateContent(t, entry) ==
    LET k == CHOOSE k \in DOMAIN run[t].reference_files :
                 run[t].reference_files[k][1] = entry.doc_id
    IN run[t].reference_files[k][3]

\* C22: in a run, a PlagiarizedSection is emitted for a sentence of the
\* submission (trimmed length of 10 or more) and an entry exactly when the
\* entry's similarity exceeds 0.7 and the sentence occurs, whatever the
\* case, in the candidate's content, wherever in the content it occurs
C22_SectionForEveryOccurrence ==
    \A t \in Threads :
        run[t].report # NoReport =>
            LET sentences == SplitDot(run[t].uploaded_text)
                results == run[t].similarity_results
                sections == run[t].report.plagiarized_sections
            IN \A i \in DOMAIN sentences :
                 Len(Strip(sentences[i])) >= 10 =>
                   \A k \in DOMAIN results :
                      (\E n \in DOMAIN sections :
                          /\ sections[n].sentence_index = i - 1
                          /\ sections[n].sentence = Strip(sentences[i])
                          /\ sections[n].source_id = results[k].doc_id
                          /\ sections[n].similarity = results[k].similarity)
                      <=> (/\ results[k].similarity > 70
                           /\ Contains(Lower(C22_CandidateContent(t, results[k])),
                                       Lower(Strip(sentences[i]))))

\* C23: the first recommendation of a report is the one of its
\* plagiarism_level (rewrite for High, paraphrase for Moderate, citation
\* reminder for Low, the no-significant-plagiarism message for Minimal), a
\* section-count entry follows exactly when there are plagiarized sections,
\* and the two generic entries are last
C23_FirstRecommendationOfLevel ==
    call.method = "generate_plagiarism_report" =>
        LET level == call.result.plagiarism_level
            sections == call.result.plagiarized_sections
            recommendations == call.result.recommendations
            n == Len(recommendations)
        IN /\ recommendations[1] =
                 (CASE level = "High" -> <<"rewrite", 0>>
                    [] level = "Moderate" -> <<"paraphrase", 0>>
                    [] level = "Low" -> <<"add_citations", 0>>
                    [] OTHER -> <<"appears_original", 0>>)
           /\ n = IF sections # <<>> THEN 4 ELSE 3
           /\ sections # <<>> => recommendations[2] = <<"pay_attention", Len(sections)>>
           /\ recommendations[n - 1] = <<"always_cite", 0>>
           /\ recommendations[n] = <<"use_detection_tools", 0>>

\* C24: for the submission "Machine learning is a subset of artificial
\* intelligence." and a corpus that holds a document titled "Doc A" with
\* the same content, the report lists Doc A in sources with similarity of
\* 0.9 or more, has plagiarism_level High or Moderate, and has a plagiarized
\* section whose source is Doc A, with or without the semantic scorer and
\* whatever else is in the corpus
C24_IdenticalSentenceScenario ==
    \A t \in Threads :
        (/\ run[t].report # NoReport
         /\ run[t].uploaded_file = F_ML
         /\ \E d \in DOMAIN documents : /\ documents[d].title = Doc_ML.title
                                         /\ documents[d].content = T_ML)
        => LET report == run[t].report IN
           /\ \E i \in DOMAIN report.sources :
                 /\ report.sources[i].title = Doc_ML.title
                 /\ report.sources[i].similarity >= 90
           /\ report.plagiarism_level \in {"High", "Moderate"}
           /\ \E n \in DOMAIN report.plagiarized_sections :
                 report.plagiarized_sections[n].source = Doc_ML.title

\* a report whose score is at most 0.6, whose level is not High and which
\* does not recommend a rewrite
C29_BelowHigh(report) ==
    /\ report.overall_score <= 600 * Thousandth
    /\ report.plagiarism_level # "High"
    /\ \A i \in DOMAIN report.recommendations : report.recommendations[i][1] # "rewrite"

\* C29: for entries with methods tfidf and bert and similarities in [0, 1]
\* the overall score is at most 0.6, so that no report of check_document has
\* plagiarism_level High and none recommends a rewrite
C29_NeverHigh ==
    /\ call.method = "generate_plagiarism_report" =>
          LET results == call.arg.similarity_results IN
          (\A i \in DOMAIN results : /\ results[i].method \in {"tfidf", "bert"}
                                      /\ results[i].similarity \in 0..100)
             => C29_BelowHigh(call.result)
    /\ \A t \in Threads : run[t].report # NoReport => C29_BelowHigh(run[t].report)

\* the highest score there is: only semantic entries, each with similarity 1.0
C29_Witness ==
    /\ call.method = "generate_plagiarism_report"
    /\ Len(call.arg.similarity_results) = 2
    /\ \A i \in DOMAIN call.arg.similarity_results :
          /\ call.arg.similarity_results[i].method = "bert"
          /\ call.arg.similarity_results[i].similarity = 100
    /\ call.result.overall_score = 600 * Thousandth
    /\ call.result.plagiarism_level = "Moderate"

\* the sources of a report that a section refers to
C30_SourcesOf(report, section) ==
    {i \in DOMAIN report.sources :
        /\ report.sources[i].doc_id = section.source_id
        /\ report.sources[i].title = section.source
        /\ report.sources[i].similarity = section.similarity}

C30_SectionsListed(report) ==
    /\ \A k \in DOMAIN report.plagiarized_sections :
          /\ C30_SourcesOf(report, report.plagiarized_sections[k]) # {}
          /\ \A i \in C30_SourcesOf(report, report.plagiarized_sections[k]) :
                report.sources[i].risk_level \in {"High Risk", "Medium Risk"}
    /\ \A i \in DOMAIN report.sources : report.sources[i].risk_level # "Safe"

\* C30: in every report each plagiarized section has a source with the same
\* doc_id, title and similarity, whose risk_level is High Risk or Medium
\* Risk, and no source has the risk_level Safe
C30_EverySectionHasItsSource ==
    /\ call.method = "generate_plagiarism_report" => C30_SectionsListed(call.result)
    /\ \A t \in Threads : run[t].report # NoReport => C30_SectionsListed(run[t].report)

\* a report with a section of a Medium Risk source next to a source without
\* a section
C30_Witness ==
    /\ call.method = "generate_plagiarism_report"
    /\ Len(call.result.plagiarized_sections) = 1
    /\ call.result.plagiarized_sections[1].similarity = 71
    /\ Len(call.result.sources) = 2
    /\ \E i \in DOMAIN call.result.sources : call.result.sources[i].risk_level = "Low Risk"

(***************************************************************************)
(* Properties of the index query                                           *)
(***************************************************************************)
\* the documents row that a selected candidate was read from
C25_Row(cand) == documents[cand[1]]

\* C25: the index query of a run is built from the tokens of the cleaned
\* submission, duplicates removed in first-occurrence order and cut to the
\* first 25 distinct tokens, each a prefix term of a disjunction; it is
\* issued at most once per run, and its result (looked at when the selector
\* is about to close the connection) is at most 100 rows in relevance order
C25_QueryOfFirstDistinctTokens ==
    \A t \in Threads :
        LET tokens == Split(run[t].cleaned_text)
            q == run[t].fts_query
            rows == run[t].reference_files
        IN /\ run[t].fts_queries <= 1
           /\ run[t].fts_queries = 1 =>
                 /\ Len(q) = Min(25, Cardinality(Range(tokens)))
                 /\ \A k \in DOMAIN q :
                       \E p \in DOMAIN tokens :
                          /\ tokens[p] = q[k]
                          /\ \A b \in 1..(p - 1) : tokens[b] # q[k]
                          /\ Cardinality({tokens[b] : b \in 1..(p - 1)}) = k - 1
           /\ (run[t].path = "index" /\ run[t].pc = "close") =>
                 /\ Len(rows) = Min(100, Cardinality({d \in DOMAIN documents :
                        \E j \in DOMAIN q : \E w \in Range(IndexedTokens(documents[d])) :
                            IsPrefix(q[j], w)}))
                 /\ \A i \in DOMAIN rows :
                       \E j \in DOMAIN q : \E w \in Range(IndexedTokens(C25_Row(rows[i]))) :
                           IsPrefix(q[j], w)
                 /\ \A i \in 1..(Len(rows) - 1) :
                       RankBefore(q, C25_Row(rows[i]), C25_Row(rows[i + 1]))
                 /\ \A d \in DOMAIN documents :
                       (\A i \in DOMAIN rows : rows[i][1] # d)
                          => \A i \in DOMAIN rows :
                                ~RankBefore(q, documents[d], C25_Row(rows[i]))

\* the submission has a repeated token and 26 distinct ones: the query has
\* 25 terms, the last distinct token is not one of them, and 100 of the 101
\* matching rows are selected
C25_Witness ==
    /\ run[1].pc = "returned"
    /\ run[1].fts_queries = 1
    /\ run[1].path = "index"
    /\ Len(Split(run[1].cleaned_text)) = 27
    /\ Cardinality(Range(Split(run[1].cleaned_text))) = 26
    /\ Len(run[1].fts_query) = 25
    /\ <<"d","o","g">> \notin Range(run[1].fts_query)
    /\ Len(documents) = MAX_CANDIDATES + 1
    /\ Len(run[1].reference_files) = MAX_CANDIDATES

(***************************************************************************)
(* Properties of the user's reports                                        *)
(***************************************************************************)
\* C27: after any sequence of successful check_document calls,
\* get_user_reports(u) has one entry for every run made with user_id u, which
\* pairs the tracked submission with the plagiarism_reports row persisted
\* for that run's report
C27_UserReportsPairEveryRun ==
    \A u \in {"u1"} :
        LET runs == {t \in Threads : run[t].pc = "returned" /\ run[t].user_id = u}
            reports == get_user_reports(user_submissions, plagiarism_reports, u)
        IN /\ Len(reports) = Cardinality(runs)
           /\ \A t \in runs :
                 \E i \in DOMAIN reports :
                    /\ reports[i].submission.report_id = run[t].report.report_id
                    /\ reports[i].submission.file_hash = run[t].document_hash
                    /\ reports[i].report.report_hash = run[t].report.report_id

(***************************************************************************)
(* Properties of the connections and of the order of the steps             *)
(***************************************************************************)
\* C26: a run that uses the database corpus opens its own connection for
\* candidate selection and only reads the corpus on it; the connection is
\* closed before scoring begins, on every path by which selection ends, one
\* that raises included, and none stays open after the run ends
C26_ConnectionClosedOnEveryPath ==
    /\ [](\A t \in Threads :
             /\ run[t].pc \in {"stage1", "try_fallback", "except_fallback", "close"}
                   => run[t].conn = "open" /\ ~run[t].reference_arg.given
             /\ (/\ ~run[t].reference_arg.given
                 /\ run[t].pc \notin {"idle", "read_file", "get_connection", "stage1",
                                       "try_fallback", "except_fallback", "close"}
                 /\ ~(run[t].pc = "raised" /\ run[t].conn = "none"))
                   => run[t].conn = "closed")
    /\ [][documents' = documents]_vars

\* C28: in every run the steps occur in the order report synthesis,
\* persistence of the report row, anchoring attempt, archiving attempt,
\* submission tracking; anchoring is attempted only when store_on_blockchain
\* is true and tracking only when user_id is non-empty; no step after
\* synthesis changes report_id, overall_score, plagiarism_level, sources or
\* plagiarized_sections
C28_StepsInOrderReportUnchanged ==
    [][\A t \in Threads :
         LET before == run[t]
             after == run'[t]
         IN \* the report row is persisted after synthesis, before the other steps
            /\ (after.stored /\ ~before.stored) =>
                  /\ before.report # NoReport
                  /\ before.anchor_result = "not_called"
                  /\ before.archive_result = "not_called"
                  /\ ~before.tracked
                  /\ Len(plagiarism_reports') = Len(plagiarism_reports) + 1
            /\ plagiarism_reports' # plagiarism_reports => \E u \in Threads : run'[u].stored /\ ~run[u].stored
            \* anchoring: after persistence, before archiving, when asked for
            /\ after.anchor_result # before.anchor_result =>
                  /\ before.stored
                  /\ before.store_on_blockchain
                  /\ before.anchor_result = "not_called"
                  /\ before.archive_result = "not_called"
                  /\ ~before.tracked
            \* archiving: after the anchoring step, before tracking
            /\ after.archive_result # before.archive_result =>
                  /\ before.stored
                  /\ before.store_on_blockchain => before.anchor_result # "not_called"
                  /\ before.archive_result = "not_called"
                  /\ ~before.tracked
            \* tracking: last, and only for a non-empty user_id
            /\ (after.tracked /\ ~before.tracked) =>
                  /\ before.archive_result # "not_called"
                  /\ before.user_id \notin {None, ""}
                  /\ after.pc = "returned"
            /\ user_submissions' # user_submissions =>
                  \E u \in Threads : run'[u].tracked /\ ~run[u].tracked
            /\ (after.pc = "returned" /\ before.pc # "returned") =>
                  /\ before.archive_result # "not_called"
                  /\ after.tracked <=> before.user_id \notin {None, ""}
                  /\ before.anchor_result # "not_called" <=> before.store_on_blockchain
            \* the synthesised values stay as they are
            /\ before.report # NoReport =>
                  /\ after.report # NoReport
                  /\ after.report.report_id = before.report.report_id
                  /\ after.report.overall_score = before.report.overall_score
                  /\ after.report.plagiarism_level = before.report.plagiarism_level
                  /\ after.report.sources = before.report.sources
                  /\ after.report.plagiarized_sections = before.report.plagiarized_sections
                  /\ after.report.timestamp = before.report.timestamp
                  /\ after.report.recommendations = before.report.recommendations
      ]_vars

\* a run that took every step: persisted, anchored, archived and tracked
C28_Witness ==
    /\ run[1].pc = "returned"
    /\ run[1].stored
    /\ run[1].store_on_blockchain
    /\ run[1].anchor_result = "success"
    /\ run[1].archive_result = "success"
    /\ run[1].tracked
    /\ run[1].report.blockchain_verification # Absent
    /\ run[1].report.ipfs_storage # Absent
    /\ Len(run[1].report.sources) > 0

====
